---------------------------- MODULE Spec2Model ----------------------------
(***************************************************************************)
(* Post-processing core of ultralytics/yolo-flutter-app (android/src/main/ *)
(* cpp): the three JNI postprocess entry points                            *)
(*   ObjectDetector.postprocess   (native-lib.cpp)                         *)
(*   TfliteDetector.postprocess   (tflite_detect.cpp)                      *)
(*   TfliteSegmenter.postprocess  (tflite_segment.cpp)                     *)
(* with their helpers qsort_descent_inplace, intersection_area,            *)
(* nms_sorted_bboxes, cv::Rect_ (types.hpp) and the polygon extraction.    *)
(*                                                                         *)
(* Numbers.  Every float of the program is a fixed-point integer counting  *)
(* eighths: the float v is the integer v * One.  Tensor values are even    *)
(* (multiples of a quarter), so halving a box size is exact, as it is in   *)
(* binary floating point; a product of two values counts 1/(One*One).      *)
(* All values are small binary fractions, on which float32 +, -, * are     *)
(* exact; a quotient is only ever compared with a threshold, and the       *)
(* comparison is made by cross-multiplication with IEEE's treatment of a   *)
(* zero or negative divisor (IoUExceeds).                                  *)
(***************************************************************************)
EXTENDS Integers, Sequences, FiniteSets, TLC

VARIABLES
    vec,      \* the detection tensor, vec[row][col], h rows of w columns
    call,     \* the postprocess call made on it and its arguments, or NoCall
    ret       \* what the call returned

vars == <<vec, call, ret>>

(***************************************************************************)
(* Fixed point and input sets                                              *)
(***************************************************************************)
\* the float 1.f
One == 8

\* the most columns (w) a tensor is given
MaxW == 2

Min(a, b) == IF a < b THEN a ELSE b
Max(a, b) == IF a > b THEN a ELSE b

\* v / 2 on a float (exact on the even values the tensors hold)
Half(v) == IF v >= 0 THEN v \div 2 ELSE -((-v) \div 2)

\* FLT_MAX: -FltMax starts the class-score maximum and lies below every
\* value a tensor holds
FltMax == 1000000

(***************************************************************************)
(* qsort_descent_inplace: Hoare partition around the middle element's      *)
(* confidence, recursing on both parts.  Positions are 0-based as in the   *)
(* code; objs[i+1] is objects[i].  oob records a read outside the vector.  *)
(***************************************************************************)
InVector(objs, i) == i >= 0 /\ i < Len(objs)

Swap_ConfidenceOnly(objs, i, j) ==
    [objs EXCEPT ![i + 1] = [objs[i + 1] EXCEPT !.confidence = objs[j + 1].confidence],
                 ![j + 1] = [objs[j + 1] EXCEPT !.confidence = objs[i + 1].confidence]]

Swap_Noop(objs, i, j) == objs

Swap(objs, i, j) == [objs EXCEPT ![i + 1] = objs[j + 1], ![j + 1] = objs[i + 1]]

RECURSIVE ScanUp_PastEqual(_, _, _)
ScanUp_PastEqual(objs, i, p) ==
    IF ~InVector(objs, i) THEN i
    ELSE IF objs[i + 1].confidence >= p THEN ScanUp_PastEqual(objs, i + 1, p) ELSE i

RECURSIVE ScanUp(_, _, _)
\* while (objects[i].confidence > p) i++;
ScanUp(objs, i, p) ==
    IF ~InVector(objs, i) THEN i
    ELSE IF objs[i + 1].confidence > p THEN ScanUp(objs, i + 1, p) ELSE i

RECURSIVE ScanDown(_, _, _)
\* while (objects[j].confidence < p) j--;
ScanDown(objs, j, p) ==
    IF ~InVector(objs, j) THEN j
    ELSE IF objs[j + 1].confidence < p THEN ScanDown(objs, j - 1, p) ELSE j

RECURSIVE PartitionLoop(_, _, _, _, _, _, _)
\* while (i <= j) { scan up; scan down; if (i <= j) { swap; i++; j--; } }
\* of the call on [left, right]; outside records a read at a position off
\* that range
PartitionLoop(objs, i, j, p, left, right, outside) ==
    IF i > j THEN [objs |-> objs, i |-> i, j |-> j, oob |-> FALSE, outside |-> outside]
    ELSE LET i2 == ScanUp(objs, i, p)
             j2 == IF InVector(objs, i2) THEN ScanDown(objs, j, p) ELSE j
             out2 == outside \/ i2 > right \/ j2 < left
         IN  IF ~InVector(objs, i2) \/ ~InVector(objs, j2)
             THEN [objs |-> objs, i |-> i2, j |-> j2, oob |-> TRUE, outside |-> TRUE]
             ELSE IF i2 <= j2
                  THEN PartitionLoop(Swap(objs, i2, j2), i2 + 1, j2 - 1, p, left, right, out2)
                  ELSE PartitionLoop(objs, i2, j2, p, left, right, out2)

RECURSIVE qsort_range(_, _, _)
\* qsort_descent_inplace(objects, left, right), on [objs, oob, outside,
\* loops]; loops records a recursive call on the range of its caller, which
\* never returns
qsort_range(q, left, right) ==
    IF q.oob \/ q.loops THEN q
    ELSE LET p == q.objs[((left + right) \div 2) + 1].confidence
             r == PartitionLoop(q.objs, left, right, p, left, right, q.outside)
             q1 == [q EXCEPT !.objs = r.objs, !.oob = r.oob, !.outside = r.outside]
             q2 == IF ~q1.oob /\ left < r.j
                   THEN IF r.j >= right THEN [q1 EXCEPT !.loops = TRUE]
                        ELSE qsort_range(q1, left, r.j)
                   ELSE q1
         IN  IF ~q2.oob /\ ~q2.loops /\ r.i < right
             THEN IF r.i <= left THEN [q2 EXCEPT !.loops = TRUE]
                  ELSE qsort_range(q2, r.i, right)
             ELSE q2

\* qsort_descent_inplace(objects): nothing to do on an empty vector
qsort_descent_inplace(objs) ==
    IF objs = <<>> THEN [objs |-> objs, oob |-> FALSE, outside |-> FALSE, loops |-> FALSE]
    ELSE qsort_range([objs |-> objs, oob |-> FALSE, outside |-> FALSE, loops |-> FALSE],
                     0, Len(objs) - 1)

(***************************************************************************)
(* Rectangles and intersection                                             *)
(***************************************************************************)
MkRect(x, y, w, h) == [x |-> x, y |-> y, width |-> w, height |-> h]

\* Rect_::empty (types.hpp)
RectEmpty(r) == r.width <= 0 \/ r.height <= 0

\* Rect_::area (types.hpp), in units of 1/(One*One)
RectArea(r) == r.width * r.height

RectAnd_NoEmptyCheck(a, b) ==
    LET Rx_min == IF a.x < b.x THEN a ELSE b
        Rx_max == IF a.x < b.x THEN b ELSE a
        Ry_min == IF a.y < b.y THEN a ELSE b
        Ry_max == IF a.y < b.y THEN b ELSE a
    IN  MkRect(Rx_max.x, Ry_max.y,
               Min(Rx_min.width - (Rx_max.x - Rx_min.x), Rx_max.width),
               Min(Ry_min.height - (Ry_max.y - Ry_min.y), Ry_max.height))

\* operator&= and operator& of cv::Rect_ (types.hpp)
RectAnd(a, b) ==
    IF RectEmpty(a) \/ RectEmpty(b) THEN MkRect(0, 0, 0, 0)
    ELSE LET Rx_min == IF a.x < b.x THEN a ELSE b
             Rx_max == IF a.x < b.x THEN b ELSE a
             Ry_min == IF a.y < b.y THEN a ELSE b
             Ry_max == IF a.y < b.y THEN b ELSE a
         IN  IF \/ (Rx_min.x < 0 /\ Rx_min.x + Rx_min.width < Rx_max.x)
                \/ (Ry_min.y < 0 /\ Ry_min.y + Ry_min.height < Ry_max.y)
             THEN MkRect(0, 0, 0, 0)
             ELSE LET c == MkRect(Rx_max.x, Ry_max.y,
                                  Min(Rx_min.width - (Rx_max.x - Rx_min.x), Rx_max.width),
                                  Min(Ry_min.height - (Ry_max.y - Ry_min.y), Ry_max.height))
                  IN  IF RectEmpty(c) THEN MkRect(0, 0, 0, 0) ELSE c

\* intersection_area of native-lib.cpp, on its own Rect struct
intersection_area_native(a, b) ==
    LET ax1 == a.rect.x
        ay1 == a.rect.y
        ax2 == a.rect.x + a.rect.width
        ay2 == a.rect.y + a.rect.height
        bx1 == b.rect.x
        by1 == b.rect.y
        bx2 == b.rect.x + b.rect.width
        by2 == b.rect.y + b.rect.height
        interWidth == Max(0, Min(ax2, bx2) - Max(ax1, bx1))
        interHeight == Max(0, Min(ay2, by2) - Max(ay1, by1))
    IN  interWidth * interHeight

\* intersection_area of tflite_detect.cpp and tflite_segment.cpp
intersection_area_cv(a, b) == RectArea(RectAnd(a.rect, b.rect))

IoUExceeds_AtLeast(inter_area, union_area, nms_threshold) ==
    IF union_area > 0 THEN inter_area * One >= nms_threshold * union_area
    ELSE IF union_area = 0 THEN inter_area > 0
    ELSE inter_area * One <= nms_threshold * union_area

\* the float comparison inter_area / union_area > nms_threshold: a zero
\* divisor gives +inf (inter > 0) or NaN (0/0, which compares false), a
\* negative one flips the inequality
IoUExceeds(inter_area, union_area, nms_threshold) ==
    IF union_area > 0 THEN inter_area * One > nms_threshold * union_area
    ELSE IF union_area = 0 THEN inter_area > 0
    ELSE inter_area * One < nms_threshold * union_area

(***************************************************************************)
(* nms_sorted_bboxes.  picked holds 0-based positions of objs.             *)
(***************************************************************************)
\* areas[i] = objects[i].rect.width * objects[i].rect.height
Areas(objs) == [i \in 1..Len(objs) |-> objs[i].rect.width * objs[i].rect.height]

SuppressedNative_ByPosition(objs, areas, i, picked, nms_threshold) ==
    \E j \in 1..Len(picked) :
        LET inter_area == intersection_area_native(objs[i + 1], objs[j])
            union_area == areas[i + 1] + areas[j] - inter_area
        IN  union_area > 0 /\ IoUExceeds(inter_area, union_area, nms_threshold)

SuppressedNative_SameClass(objs, areas, i, picked, nms_threshold) ==
    \E j \in 1..Len(picked) :
        LET inter_area == intersection_area_native(objs[i + 1], objs[picked[j] + 1])
            union_area == areas[i + 1] + areas[picked[j] + 1] - inter_area
        IN  /\ objs[i + 1].index = objs[picked[j] + 1].index
            /\ union_area > 0 /\ IoUExceeds(inter_area, union_area, nms_threshold)

\* the inner loop of native-lib.cpp: keep is cleared when union_area > 0 and
\* the ratio exceeds the threshold (the break changes nothing observable)
SuppressedNative(objs, areas, i, picked, nms_threshold) ==
    \E j \in 1..Len(picked) :
        LET inter_area == intersection_area_native(objs[i + 1], objs[picked[j] + 1])
            union_area == areas[i + 1] + areas[picked[j] + 1] - inter_area
        IN  union_area > 0 /\ IoUExceeds(inter_area, union_area, nms_threshold)

\* the inner loop of tflite_detect.cpp and tflite_segment.cpp: no guard on
\* union_area
SuppressedCv(objs, areas, i, picked, nms_threshold) ==
    \E j \in 1..Len(picked) :
        LET inter_area == intersection_area_cv(objs[i + 1], objs[picked[j] + 1])
            union_area == areas[i + 1] + areas[picked[j] + 1] - inter_area
        IN  IoUExceeds(inter_area, union_area, nms_threshold)

RECURSIVE NmsLoopNative(_, _, _, _, _)
NmsLoopNative(objs, areas, i, picked, nms_threshold) ==
    IF i >= Len(objs) THEN picked
    ELSE NmsLoopNative(objs, areas, i + 1,
             IF SuppressedNative(objs, areas, i, picked, nms_threshold)
             THEN picked ELSE Append(picked, i),
             nms_threshold)

RECURSIVE NmsLoopCv(_, _, _, _, _)
NmsLoopCv(objs, areas, i, picked, nms_threshold) ==
    IF i >= Len(objs) THEN picked
    ELSE NmsLoopCv(objs, areas, i + 1,
             IF SuppressedCv(objs, areas, i, picked, nms_threshold)
             THEN picked ELSE Append(picked, i),
             nms_threshold)

\* nms_sorted_bboxes of native-lib.cpp
nms_sorted_bboxes_native(objs, nms_threshold) ==
    NmsLoopNative(objs, Areas(objs), 0, <<>>, nms_threshold)

\* nms_sorted_bboxes of tflite_detect.cpp and of tflite_segment.cpp
nms_sorted_bboxes_cv(objs, nms_threshold) ==
    NmsLoopCv(objs, Areas(objs), 0, <<>>, nms_threshold)

(***************************************************************************)
(* Proposal builder.  A read of vec[r][i] with r >= h is outside the       *)
(* vector: garbage[r][i] stands for whatever the read yields, and oob      *)
(* records that it happened.                                               *)
(***************************************************************************)
VecAt(v, garbage, r, i) == IF r < Len(v) THEN v[r + 1][i + 1] ELSE garbage[r][i]

RECURSIVE ClassLoop_LastWins(_, _, _, _, _, _, _)
ClassLoop_LastWins(v, garbage, i, num_classes, c, class_index, class_score) ==
    IF c >= num_classes
    THEN [class_index |-> class_index, class_score |-> class_score]
    ELSE LET score == VecAt(v, garbage, c + 4, i)
         IN  IF score >= class_score
             THEN ClassLoop_LastWins(v, garbage, i, num_classes, c + 1, c, score)
             ELSE ClassLoop_LastWins(v, garbage, i, num_classes, c + 1, class_index,
                                     class_score)

RECURSIVE ClassLoop(_, _, _, _, _, _, _)
\* for (c = 0; c < num_classes; c++) if (score > class_score) { ... }
ClassLoop(v, garbage, i, num_classes, c, class_index, class_score) ==
    IF c >= num_classes
    THEN [class_index |-> class_index, class_score |-> class_score]
    ELSE LET score == VecAt(v, garbage, c + 4, i)
         IN  IF score > class_score
             THEN ClassLoop(v, garbage, i, num_classes, c + 1, c, score)
             ELSE ClassLoop(v, garbage, i, num_classes, c + 1, class_index, class_score)

\* int class_index = 0; float class_score = -FLT_MAX; then the loop
BestClass(v, garbage, i, num_classes) ==
    ClassLoop(v, garbage, i, num_classes, 0, 0, -FltMax)

\* the object native-lib.cpp builds from column i: top-left corner and size
ObjectNative(v, i, best) ==
    LET cx == v[1][i + 1]
        cy == v[2][i + 1]
        w_box == v[3][i + 1]
        h_box == v[4][i + 1]
    IN  [rect |-> MkRect(cx - Half(w_box), cy - Half(h_box), w_box, h_box),
         index |-> best.class_index,
         confidence |-> best.class_score,
         col |-> i]

\* the object tflite_detect.cpp builds from column i: the raw (cx, cy, w, h)
\* stored as rect.x, rect.y, rect.width, rect.height
ObjectCv(v, i, best) ==
    [rect |-> MkRect(v[1][i + 1], v[2][i + 1], v[3][i + 1], v[4][i + 1]),
     index |-> best.class_index,
     confidence |-> best.class_score,
     col |-> i]

\* obj.mask_coeff[c] = vec[c + 4 + num_classes][i]
MaskCoeff(v, garbage, i, num_classes, mask_channels) ==
    [c \in 1..mask_channels |-> VecAt(v, garbage, (c - 1) + 4 + num_classes, i)]

\* the object tflite_segment.cpp builds from column i
ObjectSeg(v, garbage, i, best, num_classes, mask_channels) ==
    [rect |-> MkRect(v[1][i + 1], v[2][i + 1], v[3][i + 1], v[4][i + 1]),
     index |-> best.class_index,
     confidence |-> best.class_score,
     mask_coeff |-> MaskCoeff(v, garbage, i, num_classes, mask_channels),
     col |-> i]

\* a threshold test that lets the equal score through
PassesThreshold_AtLeast(class_score, confidence_threshold) ==
    class_score >= confidence_threshold

\* if (class_score > confidence_threshold)
PassesThreshold(class_score, confidence_threshold) == class_score > confidence_threshold

\* the columns loop: variant is "native", "detect" or "segment"
RECURSIVE ProposalLoop(_, _, _, _, _, _)
ProposalLoop(variant, v, garbage, a, i, acc) ==
    IF i >= a.w THEN acc
    ELSE LET best == BestClass(v, garbage, i, a.num_classes)
             obj == IF variant = "native" THEN ObjectNative(v, i, best)
                    ELSE IF variant = "detect" THEN ObjectCv(v, i, best)
                    ELSE ObjectSeg(v, garbage, i, best, a.num_classes, a.mask_channels)
             missing == \/ a.num_classes + 4 > Len(v)
                        \/ /\ variant = "segment"
                           /\ PassesThreshold(best.class_score, a.confidence_threshold)
                           /\ a.num_classes + a.mask_channels + 4 > Len(v)
         IN  ProposalLoop(variant, v, garbage, a, i + 1,
                 [objs |-> IF PassesThreshold(best.class_score, a.confidence_threshold)
                           THEN Append(acc.objs, obj) ELSE acc.objs,
                  oob |-> acc.oob \/ missing])

Proposals(variant, v, garbage, a) ==
    ProposalLoop(variant, v, garbage, a, 0, [objs |-> <<>>, oob |-> FALSE])

(***************************************************************************)
(* The two detection operations.  What a call returns is                   *)
(*   status    "ok", or "crash" when the host process is brought down      *)
(*   objects   the records handed back to the caller                       *)
(*   oob       a read outside vec happened                                 *)
(*   proposals, picked   the sorted proposal list and the positions NMS    *)
(*             kept in it (kept for the statement of the properties)       *)
(*   unsorted, final_masks, all_polygons   of the segmenter: the proposals *)
(*             before the sort, their masks and the contours of the masks  *)
(* and every record carries col, the tensor column it was built from; a    *)
(* record of the segmenter also carries pixel_rect and filtered_polygons,  *)
(* the rectangle its points were filtered by and the points retained.      *)
(***************************************************************************)
\* an uncaught C++ exception or a fault ends the host process: nothing returns
Crashed(oob) ==
    [status |-> "crash", objects |-> <<>>, oob |-> oob, proposals |-> <<>>, picked |-> <<>>]

CountNative_Uncapped(picked, num_items_threshold) == Len(picked)

\* int count = std::min((int)picked.size(), (int)num_items_threshold)
CountNative(picked, num_items_threshold) == Min(Len(picked), num_items_threshold)

\* the float[6] record of native-lib.cpp
BoxNative(o) ==
    [x |-> o.rect.x, y |-> o.rect.y, width |-> o.rect.width, height |-> o.rect.height,
     confidence |-> o.confidence, class_index |-> o.index, col |-> o.col]

\* Java_com_ultralytics_yolo_ObjectDetector_postprocess; a negative count
\* makes std::vector<DetectedObject> objects(count) throw
ObjectDetector_postprocess(v, garbage, a) ==
    LET built == Proposals("native", v, garbage, a)
        sorted == qsort_descent_inplace(built.objs)
        proposals == sorted.objs
        picked == nms_sorted_bboxes_native(proposals, a.iou_threshold)
        count == CountNative(picked, a.num_items_threshold)
    IN  IF sorted.oob \/ sorted.loops \/ count < 0 THEN Crashed(built.oob)
        ELSE [status |-> "ok",
              objects |-> [k \in 1..count |-> BoxNative(proposals[picked[k] + 1])],
              oob |-> built.oob, proposals |-> proposals, picked |-> picked]

\* int count = (int) std::min((float) picked.size(), (float) num_items_threshold)
CountCv(picked, num_items_threshold) == Min(Len(picked), num_items_threshold)

ClampRect_NoMax(r) ==
    LET x0 == r.x - Half(r.width)
        y0 == r.y - Half(r.height)
        x1 == Min(One, r.x + Half(r.width))
        y1 == Min(One, r.y + Half(r.height))
    IN  MkRect(x0, y0, x1 - x0, y1 - y0)

\* x0 = max(0, x - width/2) ... rect = (x0, y0, x1 - x0, y1 - y0)
ClampRect(r) ==
    LET x0 == Max(0, r.x - Half(r.width))
        y0 == Max(0, r.y - Half(r.height))
        x1 == Min(One, r.x + Half(r.width))
        y1 == Min(One, r.y + Half(r.height))
    IN  MkRect(x0, y0, x1 - x0, y1 - y0)

\* the float[6] record of tflite_detect.cpp
BoxCv(o) ==
    LET r == ClampRect(o.rect)
    IN  [x |-> r.x, y |-> r.y, width |-> r.width, height |-> r.height,
         confidence |-> o.confidence, class_index |-> o.index, col |-> o.col]

\* Java_..._predict_detect_TfliteDetector_postprocess
TfliteDetector_postprocess(v, garbage, a) ==
    LET built == Proposals("detect", v, garbage, a)
        sorted == qsort_descent_inplace(built.objs)
        proposals == sorted.objs
        picked == nms_sorted_bboxes_cv(proposals, a.iou_threshold)
        count == CountCv(picked, a.num_items_threshold)
    IN  IF sorted.oob \/ sorted.loops \/ count < 0 THEN Crashed(built.oob)
        ELSE [status |-> "ok",
              objects |-> [k \in 1..count |-> BoxCv(proposals[picked[k] + 1])],
              oob |-> built.oob, proposals |-> proposals, picked |-> picked]

(***************************************************************************)
(* Masks and polygons of the segmenter.  A point is [x, y] on the pixel    *)
(* grid, a polygon a sequence of points.  The prototype grids of the model *)
(* are 2 x 2, so the set pixels of a mask, and of the canvas they are      *)
(* redrawn on, lie in one 2 x 2 block: there every set pixel is a corner   *)
(* of the border, a border joins all of them, and the segment between two  *)
(* of them meets no third pixel.  The OpenCV calls are modelled on such    *)
(* images only.                                                            *)
(***************************************************************************)
Pt(x, y) == [x |-> x, y |-> y]

\* protos is allocated as mask_shape3 x mask_shape2 x mask_shape1 and indexed
\* protos[c][y][x] with y < mask_shape1 and x < mask_shape2: the cells with
\* y >= mask_shape2 or x >= mask_shape1 lie outside the vectors
ProtoCells(a) ==
    {<<c, y, x>> : c \in 0..(a.mask_shape3 - 1), y \in 0..(a.mask_shape1 - 1),
                   x \in 0..(a.mask_shape2 - 1)}
ProtoOutside(a) == {t \in ProtoCells(a) : t[2] >= a.mask_shape2 \/ t[3] >= a.mask_shape1}

\* protos[c][y][x] = mask_protos[0][y][x][c]; a cell outside the vectors
\* holds pgarbage[c, y, x] when it is read back
Protos(a, pgarbage) ==
    [c \in 1..a.mask_shape3 |->
        [y \in 1..a.mask_shape1 |->
            [x \in 1..a.mask_shape2 |->
                IF <<c - 1, y - 1, x - 1>> \in ProtoOutside(a)
                THEN pgarbage[<<c - 1, y - 1, x - 1>>]
                ELSE a.mask_protos[y][x][c]]]]

RECURSIVE MaskSum(_, _, _, _, _)
\* sum += coeff_mat[i][k] * protos_mat[k][j], for k = 0 .. mask_shape3 - 1
MaskSum(coeff, bank, y, x, k) ==
    IF k = 0 THEN 0
    ELSE MaskSum(coeff, bank, y, x, k - 1) + coeff[k] * bank[k][y + 1][x + 1]

\* final_masks[i]: rows y < mask_shape1, columns x < mask_shape2, in 1/(One*One)
FinalMask(o, a, pgarbage) ==
    [y \in 1..a.mask_shape1 |->
        [x \in 1..a.mask_shape2 |->
            MaskSum(o.mask_coeff, Protos(a, pgarbage), y - 1, x - 1, a.mask_shape3)]]

\* mask[i][j] > 0.5f ? 255 : 0, as the set of pixels that are 255
Threshold(mask) ==
    {p \in {Pt(x - 1, y - 1) : x \in 1..Len(mask[1]), y \in 1..Len(mask)} :
        2 * mask[p.y + 1][p.x + 1] > One * One}

\* cv::findContours(RETR_EXTERNAL, CHAIN_APPROX_SIMPLE) on an image whose set
\* pixels S lie in one 2 x 2 block: a single outer border, followed from the
\* raster-first pixel through the block's corners top-left, bottom-left,
\* bottom-right, top-right
FindContours(S) ==
    IF S = {} THEN <<>>
    ELSE LET x0 == CHOOSE x \in {p.x : p \in S} : \A p \in S : x <= p.x
             y0 == CHOOSE y \in {p.y : p \in S} : \A p \in S : y <= p.y
             cycle == <<Pt(x0, y0), Pt(x0, y0 + 1), Pt(x0 + 1, y0 + 1), Pt(x0 + 1, y0)>>
             from == IF Pt(x0, y0) \in S THEN cycle
                     ELSE IF Pt(x0 + 1, y0) \in S
                          THEN <<cycle[4], cycle[1], cycle[2], cycle[3]>>
                          ELSE <<cycle[2], cycle[3], cycle[4], cycle[1]>>
             InS(p) == p \in S
         IN  <<SelectSeq(from, InS)>>

\* get_polygons: the non-empty contours of the thresholded mask
get_polygons(mask) ==
    IF mask = <<>> \/ mask[1] = <<>> THEN <<>>
    ELSE LET NonEmpty(c) == c # <<>>
         IN  SelectSeq(FindContours(Threshold(mask)), NonEmpty)

\* cv::Rect pixel_rect(x * mask_shape1, y * mask_shape2, width * mask_shape1,
\* height * mask_shape2): each float argument is converted to int, which
\* truncates toward zero
TruncToInt(num) == IF num >= 0 THEN num \div One ELSE -((-num) \div One)

PixelRect(r, a) ==
    MkRect(TruncToInt(r.x * a.mask_shape1), TruncToInt(r.y * a.mask_shape2),
           TruncToInt(r.width * a.mask_shape1), TruncToInt(r.height * a.mask_shape2))

Contains_Inclusive(r, pt) ==
    r.x <= pt.x /\ pt.x <= r.x + r.width /\ r.y <= pt.y /\ pt.y <= r.y + r.height

\* Rect_::contains (types.hpp)
Contains(r, pt) ==
    r.x <= pt.x /\ pt.x < r.x + r.width /\ r.y <= pt.y /\ pt.y < r.y + r.height

RECURSIVE Flatten(_)
Flatten(groups) == IF groups = <<>> THEN <<>> ELSE Head(groups) \o Flatten(Tail(groups))

\* the points of every polygon of every proposal that pixel_rect contains;
\* a polygon left without points is dropped
FilterPolygons(all_polygons, pixel_rect) ==
    LET Inside(pt) == Contains(pixel_rect, pt)
        flat == Flatten(all_polygons)
        filtered == [k \in 1..Len(flat) |-> SelectSeq(flat[k], Inside)]
        NonEmpty(c) == c # <<>>
    IN  SelectSeq(filtered, NonEmpty)

\* cv::drawContours(mask, {poly}, 0, 255, FILLED) for every polygon, on a
\* canvas of image_height rows and image_width columns: within one 2 x 2
\* block the filled polygons cover exactly their corner points on the canvas
DrawFilled(polygons, image_width, image_height) ==
    {p \in UNION {{polygons[k][n] : n \in 1..Len(polygons[k])} : k \in 1..Len(polygons)} :
        p.x >= 0 /\ p.x < image_width /\ p.y >= 0 /\ p.y < image_height}

RECURSIVE Shoelace(_, _)
Shoelace(c, n) ==
    IF n = 0 THEN 0
    ELSE LET p == c[n]
             q == c[(n % Len(c)) + 1]
         IN  Shoelace(c, n - 1) + (p.x * q.y - q.x * p.y)

\* twice cv::contourArea(contour)
ContourArea2(c) ==
    LET s == Shoelace(c, Len(c)) IN IF s >= 0 THEN s ELSE -s

RECURSIVE MaxAreaLoop(_, _, _, _)
\* if (area > max_area) { max_area = area; max_area_contour_index = i; }
MaxAreaLoop(contours, i, max_area2, index) ==
    IF i >= Len(contours) THEN index
    ELSE IF ContourArea2(contours[i + 1]) > max_area2
         THEN MaxAreaLoop(contours, i + 1, ContourArea2(contours[i + 1]), i)
         ELSE MaxAreaLoop(contours, i + 1, max_area2, index)

get_outer_contour_findcontours(polygons, image_width, image_height) ==
    IF polygons = <<>> THEN <<>>
    ELSE LET contours == FindContours(DrawFilled(polygons, image_width, image_height))
             max_area_contour_index == MaxAreaLoop(contours, 0, 0, -1)
         IN  IF max_area_contour_index >= 0 THEN contours[max_area_contour_index + 1]
             ELSE <<>>

\* the result map of tflite_segment.cpp
BoxSeg(o, all_polygons, a) ==
    LET r == ClampRect(o.rect)
        pixel_rect == PixelRect(r, a)
        filtered_polygons == FilterPolygons(all_polygons, pixel_rect)
    IN  [x |-> r.x, y |-> r.y, width |-> r.width, height |-> r.height,
         confidence |-> o.confidence, class_index |-> o.index, col |-> o.col,
         polygons |-> <<get_outer_contour_findcontours(filtered_polygons, a.w, a.h)>>,
         pixel_rect |-> pixel_rect, filtered_polygons |-> filtered_polygons]

\* Java_..._predict_segment_TfliteSegmenter_postprocess
TfliteSegmenter_postprocess(v, garbage, pgarbage, a) ==
    LET built == Proposals("segment", v, garbage, a)
        final_masks == [i \in 1..Len(built.objs) |-> FinalMask(built.objs[i], a, pgarbage)]
        all_polygons == [i \in 1..Len(built.objs) |-> get_polygons(final_masks[i])]
        outside == built.oob \/ ProtoOutside(a) # {}
        sorted == qsort_descent_inplace(built.objs)
        proposals == sorted.objs
        picked == nms_sorted_bboxes_cv(proposals, a.iou_threshold)
        count == CountCv(picked, a.num_items_threshold)
    IN  IF sorted.oob \/ sorted.loops \/ count < 0 THEN Crashed(outside)
        ELSE [status |-> "ok",
              objects |-> [k \in 1..count |->
                              BoxSeg(proposals[picked[k] + 1], all_polygons, a)],
              oob |-> outside, proposals |-> proposals, picked |-> picked,
              unsorted |-> built.objs, final_masks |-> final_masks,
              all_polygons |-> all_polygons]

(***************************************************************************)
(* Inputs                                                                  *)
(***************************************************************************)
\* row counts h of the tensors: 4 + 1 class, and 4 + 2 classes or
\* 4 + 1 class + 1 mask channel
Heights == {5, 6}

\* (cx, w) of a box: [0, 0.5], [0, 1], [1.25, 1.75] (right of the unit
\* square) and a box of negative width
XExtents == {<<2, 4>>, <<4, 8>>, <<12, 4>>, <<4, -4>>}

\* (cy, h) of a box: [0, 1] and [0.25, 0.75]
YExtents == {<<4, 8>>, <<4, 4>>}

\* class scores 0.25, 0.5, 0.75 in row 4; row 5 (the second class score, or
\* the mask coefficient) holds 0.25 or 0.75
ScoreVals == {2, 4, 6}
Row5Vals == {2, 6}

\* the columns an h-row tensor is built from, top to bottom; the six-row
\* tensors keep to boxes of full height and non-negative width
Columns(h) ==
    IF h = 5
    THEN {<<xe[1], ye[1], xe[2], ye[2], s>> : xe \in XExtents, ye \in YExtents, s \in ScoreVals}
    ELSE {<<xe[1], 4, xe[2], 8, s, t>> :
              xe \in {e \in XExtents : e[2] >= 0}, s \in ScoreVals, t \in Row5Vals}

\* the columns of the six-row tensors the polygons are studied on: boxes
\* [-0.25, 0.75], [0, 1], [1.25, 1.75] and one of negative width, by
\* [0, 1] and [0.25, 0.75]; one class score, one mask coefficient
SegColumns ==
    {<<xe[1], ye[1], xe[2], ye[2], s, t>> :
        xe \in {<<2, 8>>, <<4, 8>>, <<12, 4>>, <<4, -4>>}, ye \in YExtents,
        s \in ScoreVals, t \in Row5Vals}

\* confidence thresholds 0.25 and 0.5, IoU thresholds 0.25 and 0.5
ConfVals == {2, 4}
IouVals == {2, 4}

\* the largest num_items_threshold passed, and the values passed
MaxCap == 2
Caps == {0, 1, MaxCap}

\* mask_protos[0] of shape [2][2][1]: p00 p10 / p01 p11, pxy at column x, row y
Bank(p00, p10, p01, p11) == <<<< <<p00>>, <<p10>> >>, << <<p01>>, <<p11>> >>>>

\* a prototype of 1.0 everywhere
UnitBanks == {Bank(8, 8, 8, 8)}

\* prototypes of 1.0 everywhere, of 2.0 everywhere, of 1.0 on three pixels
\* and of 1.0 on a diagonal
SegBanks == {Bank(8, 8, 8, 8), Bank(16, 16, 16, 16), Bank(8, 0, 8, 8), Bank(8, 0, 0, 8)}

NoCall == [op |-> "none"]
NoRet == [status |-> "none", objects |-> <<>>, oob |-> FALSE,
          proposals |-> <<>>, picked |-> <<>>]

Width(v) == Len(v[1])

\* arguments of a detection call on tensor v
DetectArgs(op, v, ncs, cts, its, caps) ==
    {[op |-> op, w |-> Width(v), h |-> Len(v), confidence_threshold |-> ct,
      iou_threshold |-> it, num_items_threshold |-> cap, num_classes |-> nc,
      mask_channels |-> 0] :
        ct \in cts, it \in its, cap \in caps, nc \in ncs}

\* arguments of a segmentation call on tensor v: one mask channel, a 2 x 2
\* prototype grid
SegmentArgs(v, ncs, cts, its, caps, banks) ==
    {[op |-> "TfliteSegmenter", w |-> Width(v), h |-> Len(v), confidence_threshold |-> ct,
      iou_threshold |-> it, num_items_threshold |-> cap, num_classes |-> nc,
      mask_channels |-> 1, mask_protos |-> b,
      mask_shape0 |-> 1, mask_shape1 |-> 2, mask_shape2 |-> 2, mask_shape3 |-> 1] :
        ct \in cts, it \in its, cap \in caps, nc \in ncs, b \in banks}

\* what the reads of rows h .. 3 + num_classes + mask_channels, outside vec,
\* may yield
Garbage(v, a) ==
    [(Len(v))..(3 + a.num_classes + a.mask_channels) -> [0..(Width(v) - 1) -> ScoreVals]]

\* what the prototype cells outside the vectors may hold when read back:
\* 0.0, 1.0 or 2.0
ProtoGarbage(a) == [ProtoOutside(a) -> {0, 8, 16}]

(***************************************************************************)
(* Actions                                                                 *)
(***************************************************************************)
Init ==
    /\ \E h \in Heights : vec = [r \in 1..h |-> <<>>]
    /\ call = NoCall
    /\ ret = NoRet

\* the caller fills in one more column of the tensor, one of cols
AddColumn(cols) ==
    /\ call = NoCall
    /\ Width(vec) < MaxW
    /\ \E c \in cols : vec' = [r \in 1..Len(vec) |-> Append(vec[r], c[r])]
    /\ UNCHANGED <<call, ret>>

\* a read outside vec is undefined: it faults, or yields garbage
Outcomes(r) == IF r.oob THEN {r, Crashed(TRUE)} ELSE {r}

\* ObjectDetector.postprocess with arguments a
CallObjectDetector(a) ==
    /\ call = NoCall
    /\ call' = a
    /\ \E g \in Garbage(vec, a) : ret' \in Outcomes(ObjectDetector_postprocess(vec, g, a))
    /\ UNCHANGED vec

\* TfliteDetector.postprocess with arguments a
CallTfliteDetector(a) ==
    /\ call = NoCall
    /\ call' = a
    /\ \E g \in Garbage(vec, a) : ret' \in Outcomes(TfliteDetector_postprocess(vec, g, a))
    /\ UNCHANGED vec

\* TfliteSegmenter.postprocess with arguments a
CallTfliteSegmenter(a) ==
    /\ call = NoCall
    /\ call' = a
    /\ \E g \in Garbage(vec, a), pg \in ProtoGarbage(a) :
           ret' \in Outcomes(TfliteSegmenter_postprocess(vec, g, pg, a))
    /\ UNCHANGED vec

\* the class counts that agree with the tensor's rows, without and with one
\* mask channel
Classes(v) == {Len(v) - 4}
ClassesSeg(v) == {nc \in {Len(v) - 5} : nc >= 1}

\* calls whose shape arguments agree with the tensor
Next ==
    \/ AddColumn(Columns(Len(vec)))
    \/ \E a \in DetectArgs("ObjectDetector", vec, Classes(vec), ConfVals, IouVals, Caps) :
           CallObjectDetector(a)
    \/ \E a \in DetectArgs("TfliteDetector", vec, Classes(vec), ConfVals, IouVals, Caps) :
           CallTfliteDetector(a)
    \/ \E a \in SegmentArgs(vec, ClassesSeg(vec), ConfVals, IouVals, Caps, UnitBanks) :
           CallTfliteSegmenter(a)

Spec == Init /\ [][Next]_vars

\* the segmenter on six-row tensors of SegColumns, over the prototype banks
InitSeg ==
    /\ vec = [r \in 1..6 |-> <<>>]
    /\ call = NoCall
    /\ ret = NoRet

NextSeg ==
    \/ AddColumn(SegColumns)
    \/ \E a \in SegmentArgs(vec, {1}, {2}, {4}, {MaxCap}, SegBanks) : CallTfliteSegmenter(a)

SegSpec == InitSeg /\ [][NextSeg]_vars

\* calls whose num_classes need not agree with the tensor's rows
NextShape ==
    \/ AddColumn(Columns(Len(vec)))
    \/ \E a \in DetectArgs("ObjectDetector", vec, {1, 2}, ConfVals, {4}, {MaxCap}) :
           CallObjectDetector(a)
    \/ \E a \in DetectArgs("TfliteDetector", vec, {1, 2}, ConfVals, {4}, {MaxCap}) :
           CallTfliteDetector(a)
    \/ \E a \in SegmentArgs(vec, {1}, ConfVals, {4}, {MaxCap}, UnitBanks) :
           CallTfliteSegmenter(a)

ShapeSpec == Init /\ [][NextShape]_vars

\* thresholds in and outside their documented ranges: confidence -0.25 and
\* 0.25 for [0, 1], IoU 0.5 and 1.5 for (0, 1), caps -1 and MaxCap for >= 0
RangeConfVals == {-2, 2}
RangeIouVals == {4, 12}
RangeCaps == {-1, MaxCap}

NextRange ==
    \/ AddColumn(Columns(Len(vec)))
    \/ \E a \in DetectArgs("ObjectDetector", vec, Classes(vec), RangeConfVals, RangeIouVals,
                           RangeCaps) :
           CallObjectDetector(a)
    \/ \E a \in DetectArgs("TfliteDetector", vec, Classes(vec), RangeConfVals, RangeIouVals,
                           RangeCaps) :
           CallTfliteDetector(a)
    \/ \E a \in SegmentArgs(vec, ClassesSeg(vec), RangeConfVals, RangeIouVals, RangeCaps,
                            UnitBanks) :
           CallTfliteSegmenter(a)

RangeSpec == Init /\ [][NextRange]_vars

\* the segmenter over prototype grids of 2 x 2, 1 x 2 and 2 x 1 pixels with
\* one mask channel (six-row tensors) and of 1 x 2, 2 x 1 and 1 x 1 pixels
\* with two (seven-row tensors); every column is the box [0, 1] x [0, 1]
\* with score 0.25 or 0.5 and mask coefficients 0.25 or 0.75
GridColumns(h) ==
    IF h = 6 THEN {<<4, 4, 8, 8, s, t>> : s \in {2, 4}, t \in Row5Vals}
    ELSE {<<4, 4, 8, 8, s, t, u>> : s \in {2, 4}, t \in Row5Vals, u \in Row5Vals}

GridShapes(h) ==
    IF h = 6 THEN {<<2, 2>>, <<1, 2>>, <<2, 1>>} ELSE {<<1, 2>>, <<2, 1>>, <<1, 1>>}

\* mask_protos[0][y][x][c] of 0.0 or 1.0, for every pixel and channel
GridBanks(Hm, Wm, C) == [1..Hm -> [1..Wm -> [1..C -> {0, 8}]]]

GridArgs(v) ==
    UNION {{[op |-> "TfliteSegmenter", w |-> Width(v), h |-> Len(v),
             confidence_threshold |-> 2, iou_threshold |-> 4,
             num_items_threshold |-> MaxCap, num_classes |-> 1,
             mask_channels |-> Len(v) - 5, mask_protos |-> b,
             mask_shape0 |-> 1, mask_shape1 |-> sh[1], mask_shape2 |-> sh[2],
             mask_shape3 |-> Len(v) - 5] : b \in GridBanks(sh[1], sh[2], Len(v) - 5)} :
              sh \in GridShapes(Len(v))}

InitGrid ==
    /\ \E h \in {6, 7} : vec = [r \in 1..h |-> <<>>]
    /\ call = NoCall
    /\ ret = NoRet

NextGrid ==
    \/ AddColumn(GridColumns(Len(vec)))
    \/ \E a \in GridArgs(vec) : CallTfliteSegmenter(a)

GridSpec == InitGrid /\ [][NextGrid]_vars

\* nms_sorted_bboxes on its own: lists of at most MaxN proposals over the
\* rectangles below, of equal confidence; ret.picked is the list a first run
\* keeps, ret.kept the proposals at those positions, ret.again what a run on
\* ret.kept keeps
MaxN == 4

\* squares of side 1.0 at x = 0, 0.25, 0.5, 0.75 and 1.0, a square of side
\* 0.5 inside the first, and rectangles of zero and of negative width
NmsRects ==
    {MkRect(0, 0, 8, 8), MkRect(2, 0, 8, 8), MkRect(4, 0, 8, 8), MkRect(6, 0, 8, 8),
     MkRect(8, 0, 8, 8), MkRect(2, 2, 4, 4), MkRect(0, 0, 0, 8), MkRect(2, 0, -4, 8)}

InitNms ==
    /\ vec = <<>>
    /\ call = NoCall
    /\ ret = [status |-> "none", proposals |-> <<>>, picked |-> <<>>, kept |-> <<>>,
              again |-> <<>>]

AddProposal ==
    /\ call = NoCall
    /\ Len(ret.proposals) < MaxN
    /\ \E r \in NmsRects :
           ret' = [ret EXCEPT !.proposals = Append(@, [rect |-> r, confidence |-> One])]
    /\ UNCHANGED <<vec, call>>

\* nms_sorted_bboxes(proposals, picked, iou_threshold) of native-lib.cpp
RunNmsNative ==
    /\ call = NoCall
    /\ \E thr \in IouVals :
           LET picked == nms_sorted_bboxes_native(ret.proposals, thr)
           IN  /\ call' = [op |-> "nms_native", iou_threshold |-> thr]
               /\ ret' = [ret EXCEPT !.status = "nms", !.picked = picked,
                              !.kept = [k \in 1..Len(picked) |-> ret.proposals[picked[k] + 1]]]
    /\ UNCHANGED vec

\* nms_sorted_bboxes(proposals, picked, iou_threshold) of tflite_segment.cpp
RunNmsCv ==
    /\ call = NoCall
    /\ \E thr \in IouVals :
           LET picked == nms_sorted_bboxes_cv(ret.proposals, thr)
           IN  /\ call' = [op |-> "nms_cv", iou_threshold |-> thr]
               /\ ret' = [ret EXCEPT !.status = "nms", !.picked = picked,
                              !.kept = [k \in 1..Len(picked) |-> ret.proposals[picked[k] + 1]]]
    /\ UNCHANGED vec

\* the same function, same threshold, on the proposals it kept
RerunNms ==
    /\ ret.status = "nms"
    /\ ret' = [ret EXCEPT !.status = "nms_again",
                   !.again = IF call.op = "nms_native"
                             THEN nms_sorted_bboxes_native(ret.kept, call.iou_threshold)
                             ELSE nms_sorted_bboxes_cv(ret.kept, call.iou_threshold)]
    /\ UNCHANGED <<vec, call>>

NextNms ==
    \/ AddProposal
    \/ RunNmsNative
    \/ RunNmsCv
    \/ RerunNms

NmsSpec == InitNms /\ [][NextNms]_vars

\* The two contains functions, on integer rectangles with corner 0 or 1 and
\* sides up to MaxSide and on the points around them; ret.result is the
\* answer.
MaxSide == 2

ContainsRects ==
    {MkRect(x, y, w, h) : x \in 0..1, y \in 0..1, w \in 0..MaxSide, h \in 0..MaxSide}

ContainsPoints == {Pt(x, y) : x \in -1..(MaxSide + 2), y \in -1..(MaxSide + 2)}

\* Rect_::contains(px, py) of rect.h
ContainsRectH(r, px, py) ==
    px >= r.x /\ px <= r.x + r.width /\ py >= r.y /\ py <= r.y + r.height

InitContains ==
    /\ vec = <<>>
    /\ call = NoCall
    /\ ret = [status |-> "none", result |-> FALSE]

\* rect.contains(pt) of types.hpp
CallContainsTypes ==
    /\ call = NoCall
    /\ \E r \in ContainsRects, pt \in ContainsPoints :
           /\ call' = [op |-> "contains_types_hpp", rect |-> r, pt |-> pt]
           /\ ret' = [status |-> "ok", result |-> Contains(r, pt)]
    /\ UNCHANGED vec

\* rect.contains(px, py) of rect.h
CallContainsRectH ==
    /\ call = NoCall
    /\ \E r \in ContainsRects, pt \in ContainsPoints :
           /\ call' = [op |-> "contains_rect_h", rect |-> r, pt |-> pt]
           /\ ret' = [status |-> "ok", result |-> ContainsRectH(r, pt.x, pt.y)]
    /\ UNCHANGED vec

NextContains ==
    \/ CallContainsTypes
    \/ CallContainsRectH

ContainsSpec == InitContains /\ [][NextContains]_vars

\* qsort_descent_inplace on its own, on vectors of up to MaxLen proposals
\* whose confidences are drawn from ScoreVals, duplicates included;
\* ret.proposals is the vector before the call, col the position a proposal
\* had in it, ret.sorted the vector after the call
MaxLen == 5

InitSort ==
    /\ vec = <<>>
    /\ call = NoCall
    /\ ret = [status |-> "none", proposals |-> <<>>, sorted |-> <<>>, oob |-> FALSE,
              outside |-> FALSE, loops |-> FALSE]

PushProposal ==
    /\ call = NoCall
    /\ Len(ret.proposals) < MaxLen
    /\ \E s \in ScoreVals :
           ret' = [ret EXCEPT !.proposals =
                       Append(@, [confidence |-> s, col |-> Len(ret.proposals)])]
    /\ UNCHANGED <<vec, call>>

\* qsort_descent_inplace(objects)
RunQsort ==
    /\ call = NoCall
    /\ LET q == qsort_descent_inplace(ret.proposals)
       IN  /\ call' = [op |-> "qsort_descent_inplace"]
           /\ ret' = [ret EXCEPT !.status = IF q.loops THEN "diverged" ELSE "sorted",
                          !.sorted = q.objs, !.oob = q.oob, !.outside = q.outside,
                          !.loops = q.loops]
    /\ UNCHANGED vec

NextSort ==
    \/ PushProposal
    \/ RunQsort

SortSpec == InitSort /\ [][NextSort]_vars

(***************************************************************************)
(* Properties.  The statements below read the tensor and the arguments of  *)
(* the call, and say what they mean by a best score, a box and an IoU      *)
(* without the operators of the model above.                               *)
(***************************************************************************)
Returned == ret.status = "ok"
Cols == 0..(Width(vec) - 1)
Detections == 1..Len(ret.objects)

\* tensor[4 + c][i] and the best class score of column i
ScoreAt(c, i) == vec[4 + c + 1][i + 1]
BestScore(i) ==
    CHOOSE s \in {ScoreAt(c, i) : c \in 0..(call.num_classes - 1)} :
        \A c \in 0..(call.num_classes - 1) : ScoreAt(c, i) <= s

\* C1: every detection returned by the detection and segmentation operations
\* has confidence strictly above confidence_threshold; a column whose best
\* class score is at or below the threshold yields no detection, and a
\* tensor of such columns only yields the empty output.
C1_StrictThreshold ==
    Returned =>
        /\ \A k \in Detections : ret.objects[k].confidence > call.confidence_threshold
        /\ \A k \in Detections : BestScore(ret.objects[k].col) > call.confidence_threshold
        /\ (\A i \in Cols : BestScore(i) <= call.confidence_threshold) => ret.objects = <<>>

\* a segmentation call that returned a detection and left out a column whose
\* best score equals the threshold
C1_Witness ==
    /\ Returned
    /\ call.op = "TfliteSegmenter"
    /\ ret.objects # <<>>
    /\ \E i \in Cols :
           /\ BestScore(i) = call.confidence_threshold
           /\ \A k \in Detections : ret.objects[k].col # i

\* the box of column i as the specification reads it: centre (cx, cy) and
\* size (w, h), as top-left corner and size
TrueBox(i) ==
    MkRect(vec[1][i + 1] - Half(vec[3][i + 1]), vec[2][i + 1] - Half(vec[4][i + 1]),
           vec[3][i + 1], vec[4][i + 1])

\* area of the intersection of two axis-aligned rectangles
InterArea(a, b) ==
    Max(0, Min(a.x + a.width, b.x + b.width) - Max(a.x, b.x))
        * Max(0, Min(a.y + a.height, b.y + b.height) - Max(a.y, b.y))

\* IoU(a, b) <= thr, where IoU is 0 when the union is not positive
IoUAtMost(a, b, thr) ==
    LET inter == InterArea(a, b)
        union == a.width * a.height + b.width * b.height - inter
    IN  union <= 0 \/ inter * One <= thr * union

EmittedRect(k) ==
    MkRect(ret.objects[k].x, ret.objects[k].y, ret.objects[k].width, ret.objects[k].height)

\* C2: any two distinct detections returned by one call of the detection
\* operation have IoU at most iou_threshold, for the boxes of their columns
\* and for the rectangles returned.
C2_PairwiseIoU ==
    (Returned /\ call.op \in {"ObjectDetector", "TfliteDetector"}) =>
        \A j, k \in Detections :
            j # k =>
                /\ IoUAtMost(TrueBox(ret.objects[j].col), TrueBox(ret.objects[k].col),
                             call.iou_threshold)
                /\ IoUAtMost(EmittedRect(j), EmittedRect(k), call.iou_threshold)

\* the same, of ObjectDetector.postprocess alone
C2_PairwiseIoU_ObjectDetector ==
    (call.op = "ObjectDetector") => C2_PairwiseIoU

\* C3: the detections are returned in non-increasing order of confidence.
C3_SortedDescending ==
    Returned =>
        \A k \in Detections :
            k < Len(ret.objects) => ret.objects[k].confidence >= ret.objects[k + 1].confidence

\* two detections returned in the reverse of their column order, the later
\* column having the strictly higher confidence
C3_Witness ==
    /\ Returned
    /\ Len(ret.objects) = 2
    /\ ret.objects[1].col > ret.objects[2].col
    /\ ret.objects[1].confidence > ret.objects[2].confidence

\* greedy NMS that stops as soon as cap positions are kept; the IoU test is
\* that of the operation called
RECURSIVE NmsEarly(_, _, _, _, _, _)
NmsEarly(op, objs, i, kept, thr, cap) ==
    IF i >= Len(objs) \/ Len(kept) >= cap THEN kept
    ELSE NmsEarly(op, objs, i + 1,
             IF (IF op = "ObjectDetector"
                 THEN SuppressedNative(objs, Areas(objs), i, kept, thr)
                 ELSE SuppressedCv(objs, Areas(objs), i, kept, thr))
             THEN kept ELSE Append(kept, i),
             thr, cap)

\* detection k is made from sorted proposal number p
MadeFrom(k, p) ==
    /\ ret.objects[k].col = ret.proposals[p + 1].col
    /\ ret.objects[k].confidence = ret.proposals[p + 1].confidence
    /\ ret.objects[k].class_index = ret.proposals[p + 1].index

\* C4: with K the list greedy NMS keeps over all sorted proposals, the call
\* returns min(|K|, num_items_threshold) detections, the first that many of
\* K in the order they were appended, which is what NMS stopped at
\* |K| = num_items_threshold keeps.
C4_TruncatedKept ==
    Returned =>
        LET K == ret.picked
            E == NmsEarly(call.op, ret.proposals, 0, <<>>, call.iou_threshold,
                          call.num_items_threshold)
        IN  /\ Len(ret.objects) = Min(Len(K), call.num_items_threshold)
            /\ \A k \in Detections : MadeFrom(k, K[k])
            /\ Len(E) = Len(ret.objects)
            /\ \A k \in Detections : E[k] = K[k]

\* a call that kept two proposals under a cap of one, and returned the first
C4_Witness ==
    /\ Returned
    /\ call.num_items_threshold = 1
    /\ Len(ret.picked) > 1
    /\ Len(ret.objects) = 1

\* a call that kept fewer proposals than there are and fewer than the cap
C4_WitnessBelowCap ==
    /\ Returned
    /\ Len(ret.picked) < Len(ret.proposals)
    /\ Len(ret.picked) < call.num_items_threshold
    /\ Len(ret.objects) = Len(ret.picked)

\* the rectangle lies in the unit square, corners included
InUnitSquare(r) ==
    /\ 0 <= r.x /\ r.x <= One
    /\ 0 <= r.y /\ r.y <= One
    /\ 0 <= r.x + r.width /\ r.x + r.width <= One
    /\ 0 <= r.y + r.height /\ r.y + r.height <= One

\* column i has its centre in the unit square and no negative size
CentredInUnitSquare(i) ==
    /\ 0 <= vec[1][i + 1] /\ vec[1][i + 1] <= One
    /\ 0 <= vec[2][i + 1] /\ vec[2][i + 1] <= One
    /\ vec[3][i + 1] >= 0
    /\ vec[4][i + 1] >= 0

PixelRectOf(k) == PixelRect(EmittedRect(k), call)

\* the points of the polygon returned for detection k
PolygonPoints(k) ==
    UNION {{ret.objects[k].polygons[m][n] : n \in 1..Len(ret.objects[k].polygons[m])} :
              m \in 1..Len(ret.objects[k].polygons)}

C7_NmsIdempotent ==
    ret.status = "nms_again" =>
        /\ ret.again = [k \in 1..Len(ret.kept) |-> k - 1]
        /\ [k \in 1..Len(ret.again) |-> ret.kept[ret.again[k] + 1]] = ret.kept

\* a second run on three proposals kept out of four
C7_Witness ==
    /\ ret.status = "nms_again"
    /\ Len(ret.proposals) = 4
    /\ Len(ret.kept) = 3
    /\ Len(ret.again) = 3

\* C8: the class_index of a detection is the smallest class c in
\* [0, num_classes) whose score tensor[4 + c][i] is the maximum class score
\* of its column i: it lies in [0, num_classes), and of two classes with the
\* same maximal score the smaller is returned.
C8_SmallestArgmax ==
    Returned =>
        \A k \in Detections :
            LET i == ret.objects[k].col
                c == ret.objects[k].class_index
            IN  /\ c \in 0..(call.num_classes - 1)
                /\ ScoreAt(c, i) = BestScore(i)
                /\ \A d \in 0..(c - 1) : ScoreAt(d, i) < BestScore(i)
                /\ ret.objects[k].confidence = BestScore(i)

\* a detection of class 0 for a column whose two classes have the same score
C8_Witness ==
    /\ Returned
    /\ call.num_classes = 2
    /\ \E k \in Detections :
           /\ ScoreAt(0, ret.objects[k].col) = ScoreAt(1, ret.objects[k].col)
           /\ ret.objects[k].class_index = 0

\* a detection of class 1 for a column whose second class scores higher
C8_WitnessSecondClass ==
    /\ Returned
    /\ call.num_classes = 2
    /\ \E k \in Detections :
           /\ ScoreAt(0, ret.objects[k].col) < ScoreAt(1, ret.objects[k].col)
           /\ ret.objects[k].class_index = 1

\* C9: for each proposal kept, of box (cx, cy, w, h), the detection
\* operation returns the rectangle (cx - w/2, cy - h/2, w, h), unclamped,
\* also when the box reaches outside the unit square.
C9_UnclampedRect ==
    (Returned /\ call.op \in {"ObjectDetector", "TfliteDetector"}) =>
        \A k \in Detections : EmittedRect(k) = TrueBox(ret.objects[k].col)

\* the same, of ObjectDetector.postprocess alone
C9_UnclampedRect_ObjectDetector ==
    (call.op = "ObjectDetector") => C9_UnclampedRect

\* a call was made with a row count h that is not 4 + num_classes +
\* mask_channels
ShapeMismatch ==
    /\ call # NoCall
    /\ call.h # 4 + call.num_classes + call.mask_channels

\* C10: a call whose row count h disagrees with 4 + num_classes +
\* mask_channels is rejected: it returns the empty result and reads no row
\* or column outside the h x w array.
C10_ShapeRejected ==
    ShapeMismatch => (ret.status = "ok" /\ ret.objects = <<>> /\ ~ret.oob)

\* C10, the part about reads: a call with fewer rows than 4 + num_classes +
\* mask_channels reads no row outside the array.
C10_NoReadOutside ==
    ShapeMismatch => ~ret.oob

\* C10, the part about the result: a call with more rows than 4 +
\* num_classes + mask_channels returns nothing.
C10_EmptyResult ==
    (ShapeMismatch /\ Returned) => ret.objects = <<>>

\* a call was made with a threshold outside its documented range
ThresholdOutOfRange ==
    /\ call # NoCall
    /\ \/ call.num_items_threshold < 0
       \/ call.iou_threshold <= 0 \/ call.iou_threshold >= One
       \/ call.confidence_threshold < 0 \/ call.confidence_threshold > One

\* C11: a call with a threshold outside its documented range
\* (num_items_threshold < 0, iou_threshold outside (0, 1),
\* confidence_threshold outside [0, 1]) returns the empty result and does not
\* abort; a negative num_items_threshold gives no negative count.
C11_OutOfRangeRejected ==
    ThresholdOutOfRange => (ret.status = "ok" /\ ret.objects = <<>>)

\* C11, the part about aborting: no call with a negative num_items_threshold
\* brings the process down.
C11_NegativeCapNoAbort ==
    (call # NoCall /\ call.num_items_threshold < 0) => ret.status = "ok"

\* C11, the part about the result: a call that returns, with a confidence or
\* IoU threshold outside its range, returns nothing.
C11_OutOfRangeEmpty ==
    (ThresholdOutOfRange /\ Returned) => ret.objects = <<>>

\* C12: a call on a tensor of no columns (w = 0), whatever h, num_classes and
\* the thresholds, returns the empty sequence and reads no element of an
\* empty vector.
C12_EmptyTensor ==
    (call # NoCall /\ call.w = 0) =>
        (ret.status = "ok" /\ ret.objects = <<>> /\ ret.proposals = <<>> /\ ~ret.oob)

\* the same, of the calls whose num_items_threshold is not negative
C12_EmptyTensor_NonNegativeCap ==
    (call # NoCall /\ call.num_items_threshold >= 0) => C12_EmptyTensor

\* the positions of ret.proposals, and those a run of NMS kept
Positions == 0..(Len(ret.proposals) - 1)
Kept == {ret.picked[k] : k \in 1..Len(ret.picked)}

\* the IoU of proposals i and k exceeds thr
Overlaps(i, k, thr) ==
    ~IoUAtMost(ret.proposals[i + 1].rect, ret.proposals[k + 1].rect, thr)

\* C13: greedy NMS drops candidate i exactly when a proposal kept before it
\* has IoU with i strictly above the threshold: a candidate whose IoU with
\* the kept ones is at most the threshold, equality included, is kept, and
\* every dropped one is overlapped by an earlier kept one.
C13_DroppedIffOverlapped ==
    ret.status = "nms" =>
        /\ \A i \in Positions :
               i \notin Kept <=>
                   \E k \in Kept : k < i /\ Overlaps(i, k, call.iou_threshold)
        /\ \A j, k \in 1..Len(ret.picked) : j < k => ret.picked[j] < ret.picked[k]

\* a run that kept a candidate whose IoU with an earlier kept proposal
\* equals the threshold, and dropped another
C13_Witness ==
    /\ ret.status = "nms"
    /\ Kept # Positions
    /\ \E i, k \in Kept :
           LET a == ret.proposals[i + 1].rect
               b == ret.proposals[k + 1].rect
           IN  /\ k < i
               /\ InterArea(a, b) > 0
               /\ InterArea(a, b) * One
                      = call.iou_threshold * (RectArea(a) + RectArea(b) - InterArea(a, b))

\* the sorted proposals with every class_index replaced by 0
Unlabelled == [n \in 1..Len(ret.proposals) |-> [ret.proposals[n] EXCEPT !.index = 0]]

\* C14: NMS is class-agnostic: what it keeps depends on the rectangles and
\* the order of the proposals only, so a proposal is dropped when an earlier
\* kept proposal overlaps it (IoU > threshold), of another class or not.
C14_ClassAgnostic ==
    Returned =>
        /\ \A i \in Positions, k \in Kept :
               (k < i /\ Overlaps(i, k, call.iou_threshold)) => i \notin Kept
        /\ ret.picked = IF call.op = "ObjectDetector"
                        THEN nms_sorted_bboxes_native(Unlabelled, call.iou_threshold)
                        ELSE nms_sorted_bboxes_cv(Unlabelled, call.iou_threshold)

\* a proposal of one class dropped for a kept proposal of the other class,
\* of higher confidence, that overlaps it
C14_Witness ==
    /\ Returned
    /\ call.op = "ObjectDetector"
    /\ \E i \in Positions \ Kept, k \in Kept :
           /\ k < i
           /\ Overlaps(i, k, call.iou_threshold)
           /\ ret.proposals[i + 1].index # ret.proposals[k + 1].index
           /\ ret.proposals[i + 1].confidence < ret.proposals[k + 1].confidence
           /\ \A m \in Kept : ret.proposals[m + 1].index # ret.proposals[i + 1].index

\* width x height of proposal i, and the union the NMS loop computes for
\* proposals i and k
AreaOf(i) == ret.proposals[i + 1].rect.width * ret.proposals[i + 1].rect.height
UnionOf(i, k) ==
    AreaOf(i) + AreaOf(k)
        - InterArea(ret.proposals[i + 1].rect, ret.proposals[k + 1].rect)

\* C15: in every NMS implementation a proposal whose width x height is <= 0
\* is never dropped and never makes another proposal be dropped, and a pair
\* whose union is <= 0 counts as IoU 0: the candidate is kept.
C15_DegenerateKept ==
    ret.status = "nms" =>
        /\ \A i \in Positions : AreaOf(i) <= 0 => i \in Kept
        /\ \A i \in Positions \ Kept :
               \E k \in Kept :
                   /\ k < i
                   /\ AreaOf(k) > 0
                   /\ UnionOf(i, k) > 0
                   /\ Overlaps(i, k, call.iou_threshold)
        /\ \A i \in Positions :
               (\A k \in Kept : k < i => UnionOf(i, k) <= 0) => i \in Kept

\* a run of the cv::Rect implementation that kept a pair whose union is 0
\* and a pair whose union is negative
C15_Witness ==
    /\ ret.status = "nms"
    /\ call.op = "nms_cv"
    /\ \E i, k \in Kept : k < i /\ UnionOf(i, k) = 0
    /\ \E i, k \in Kept : k < i /\ UnionOf(i, k) < 0

\* the clamped corners of column i: x0 = max(0, cx - w/2), x1 = min(1, cx + w/2),
\* likewise y
CornerX0(i) == Max(0, vec[1][i + 1] - Half(vec[3][i + 1]))
CornerX1(i) == Min(One, vec[1][i + 1] + Half(vec[3][i + 1]))
CornerY0(i) == Max(0, vec[2][i + 1] - Half(vec[4][i + 1]))
CornerY1(i) == Min(One, vec[2][i + 1] + Half(vec[4][i + 1]))
Collapsed(i) == CornerX1(i) <= CornerX0(i) \/ CornerY1(i) <= CornerY0(i)

\* C16, the part about emission: the segmentation operation returns a record
\* for every proposal NMS kept, up to the cap, collapsed corners or not.
C16_CollapsedEmitted ==
    (Returned /\ call.op = "TfliteSegmenter") =>
        /\ Len(ret.objects) = Min(Len(ret.picked), call.num_items_threshold)
        /\ \A k \in Detections : MadeFrom(k, ret.picked[k])

\* C16: a kept proposal of the segmentation operation whose clamped corners
\* satisfy x1 <= x0 or y1 <= y0 is returned as a record, not discarded; the
\* rectangle returned is empty and has width >= 0 and height >= 0.
C16_CollapsedRectEmpty ==
    (Returned /\ call.op = "TfliteSegmenter") =>
        /\ C16_CollapsedEmitted
        /\ \A k \in Detections :
               Collapsed(ret.objects[k].col) =>
                   /\ ret.objects[k].width >= 0
                   /\ ret.objects[k].height >= 0
                   /\ (ret.objects[k].width = 0 \/ ret.objects[k].height = 0)

\* sum over c in [0, C) of coeff[c] * prototypes[c][y][x], the prototypes
\* read from the bank handed to the call
RECURSIVE CoeffSum(_, _, _, _)
CoeffSum(coeff, y, x, C) ==
    IF C = 0 THEN 0
    ELSE CoeffSum(coeff, y, x, C - 1) + coeff[C] * call.mask_protos[y + 1][x + 1][C]

GridPixels ==
    {Pt(x, y) : x \in 0..(call.mask_shape2 - 1), y \in 0..(call.mask_shape1 - 1)}

\* C17: whatever the prototype grid H_m x W_m, square or not, and the number
\* C of mask channels, the mask of a proposal is M[y][x] = sum over c of
\* coeff[c] * prototypes[c][y][x] for y < H_m and x < W_m, the prototype bank
\* and the coefficients are read at in-range indices only, and the binary
\* mask is 1 exactly where M[y][x] > 0.5, without a sigmoid.
C17_MaskAssembly ==
    (call # NoCall /\ call.op = "TfliteSegmenter") =>
        /\ ret.status = "ok"
        /\ ~ret.oob
        /\ \A n \in 1..Len(ret.unsorted) :
               /\ \A p \in GridPixels :
                      ret.final_masks[n][p.y + 1][p.x + 1]
                          = CoeffSum(ret.unsorted[n].mask_coeff, p.y, p.x, call.mask_channels)
               /\ UNION {{ret.all_polygons[n][m][q] : q \in 1..Len(ret.all_polygons[n][m])} :
                            m \in 1..Len(ret.all_polygons[n])}
                      = {p \in GridPixels :
                            2 * CoeffSum(ret.unsorted[n].mask_coeff, p.y, p.x,
                                         call.mask_channels) > One * One}

\* the same, of the calls on square prototype grids
C17_MaskAssembly_SquareGrid ==
    (call # NoCall /\ call.mask_shape1 = call.mask_shape2) => C17_MaskAssembly

\* the float num rounded to the nearest integer, halves away from zero
RoundToInt(num) ==
    IF num >= 0 THEN (2 * num + One) \div (2 * One) ELSE -((2 * (-num) + One) \div (2 * One))

\* rect_px of the normalized rectangle r: horizontal quantities times W_m
\* (mask_shape2), vertical ones times H_m (mask_shape1), each rounded
RectPx(r) ==
    MkRect(RoundToInt(r.x * call.mask_shape2), RoundToInt(r.y * call.mask_shape1),
           RoundToInt(r.width * call.mask_shape2), RoundToInt(r.height * call.mask_shape1))

\* C18: the pixel rect a segmentation detection's points are filtered by is
\* rect_px = (round(x * W_m), round(y * H_m), round(w * W_m), round(h * H_m))
\* of its normalized rect (x, y, w, h).
C18_PixelRectRounded ==
    (Returned /\ call.op = "TfliteSegmenter") =>
        \A k \in Detections : ret.objects[k].pixel_rect = RectPx(EmittedRect(k))

\* C18, the scaling alone: the pixel rect lies within one pixel of
\* (x * W_m, y * H_m, w * W_m, h * H_m).
C18_PixelRectScaling ==
    (Returned /\ call.op = "TfliteSegmenter") =>
        \A k \in Detections :
            LET pr == ret.objects[k].pixel_rect
                r == EmittedRect(k)
                Near(n, num) == One * n - One < num /\ num < One * n + One
            IN  /\ Near(pr.x, r.x * call.mask_shape2)
                /\ Near(pr.y, r.y * call.mask_shape1)
                /\ Near(pr.width, r.width * call.mask_shape2)
                /\ Near(pr.height, r.height * call.mask_shape1)

\* the tensor columns of the proposals NMS kept
KeptCols == {ret.proposals[p + 1].col : p \in Kept}

\* the contours of the masks of the kept proposals only: those of a proposal
\* NMS dropped are not computed
KeptPolygons ==
    [n \in 1..Len(ret.unsorted) |->
        IF ret.unsorted[n].col \in KeptCols THEN ret.all_polygons[n] ELSE <<>>]

\* C19: masks and contours computed for the proposals NMS kept only give
\* every detection the polygon the source gives it, which computes them for
\* every proposal above the threshold before the sort and NMS: a detection's
\* polygon does not depend on the masks of the proposals NMS dropped.
C19_KeptOnlyEquivalent ==
    (Returned /\ call.op = "TfliteSegmenter") =>
        \A k \in Detections :
            ret.objects[k].polygons
                = <<get_outer_contour_findcontours(
                        FilterPolygons(KeptPolygons, ret.objects[k].pixel_rect),
                        call.w, call.h)>>

\* the same, of the calls in which NMS dropped nothing
C19_KeptOnlyEquivalent_NothingDropped ==
    (Returned /\ Len(ret.picked) = Len(ret.proposals)) => C19_KeptOnlyEquivalent

\* the points of a sequence of contours
PointsOf(polys) == UNION {{polys[c][n] : n \in 1..Len(polys[c])} : c \in 1..Len(polys)}

\* the contours of the binary mask of every proposal above the threshold
MaskContours == Flatten([n \in 1..Len(ret.final_masks) |-> get_polygons(ret.final_masks[n])])

\* the contour points a rectangle holds, and the contours with a point in it
PointsInside(r) == {pt \in PointsOf(MaskContours) : Contains(r, pt)}
ContoursInside(r) ==
    {c \in 1..Len(MaskContours) : \E n \in 1..Len(MaskContours[c]) : Contains(r, MaskContours[c][n])}

RetainedExactly(k, r) ==
    /\ PointsOf(ret.objects[k].filtered_polygons) = PointsInside(r)
    /\ \A c \in 1..Len(ret.objects[k].filtered_polygons) :
           ret.objects[k].filtered_polygons[c] # <<>>
    /\ Len(ret.objects[k].filtered_polygons) = Cardinality(ContoursInside(r))

\* C20: the points a returned segmentation detection retains before
\* rasterization are exactly the contour points, over the contours of the
\* binary mask of every proposal above the threshold, that lie inside the
\* detection's rect_px; a contour with no point inside rect_px contributes
\* nothing.
C20_RetainedPoints ==
    (Returned /\ call.op = "TfliteSegmenter") =>
        \A k \in Detections : RetainedExactly(k, RectPx(EmittedRect(k)))

\* the same, of the pixel rectangle the source computes
C20_RetainedPoints_PixelRect ==
    (Returned /\ call.op = "TfliteSegmenter") =>
        \A k \in Detections : RetainedExactly(k, ret.objects[k].pixel_rect)

\* polygon points inside the rounded rect_px
C6_InsideRectPx ==
    (Returned /\ call.op = "TfliteSegmenter") =>
        \A k \in Detections :
            \A pt \in PointsOf(ret.objects[k].polygons) : Contains(RectPx(EmittedRect(k)), pt)

\* the external contours of the canvas detection k's retained polygons were
\* filled on
CanvasContours(k) ==
    FindContours(DrawFilled(ret.objects[k].filtered_polygons, call.w, call.h))

\* the polygon is a contour of the canvas of the largest area
LargestContour(k) ==
    \E c \in 1..Len(CanvasContours(k)) :
        /\ ret.objects[k].polygons = <<CanvasContours(k)[c]>>
        /\ \A d \in 1..Len(CanvasContours(k)) :
               ContourArea2(CanvasContours(k)[d]) <= ContourArea2(CanvasContours(k)[c])

\* C21: get_outer_contour_findcontours returns a contour of the largest area
\* among the external contours of the filled canvas, and the empty polygon
\* only when the canvas has no contour: when every contour has area zero, one
\* of them is still returned.
C21_LargestContour ==
    (Returned /\ call.op = "TfliteSegmenter") =>
        \A k \in Detections :
            IF ret.objects[k].filtered_polygons = <<>> \/ CanvasContours(k) = <<>>
            THEN ret.objects[k].polygons = <<<<>>>>
            ELSE LargestContour(k)

\* the same, of the canvases with a contour of positive area
C21_LargestContour_PositiveArea ==
    (Returned /\ call.op = "TfliteSegmenter") =>
        \A k \in Detections :
            (\E c \in 1..Len(CanvasContours(k)) : ContourArea2(CanvasContours(k)[c]) > 0)
                => LargestContour(k)

\* a canvas whose contours all have area zero gives the empty polygon
C21_ZeroAreaEmpty ==
    (Returned /\ call.op = "TfliteSegmenter") =>
        \A k \in Detections :
            (\A c \in 1..Len(CanvasContours(k)) : ContourArea2(CanvasContours(k)[c]) = 0)
                => ret.objects[k].polygons = <<<<>>>>

\* half-open containment of the point of the call in the rectangle of the call
HalfOpen ==
    /\ call.rect.x <= call.pt.x /\ call.pt.x < call.rect.x + call.rect.width
    /\ call.rect.y <= call.pt.y /\ call.pt.y < call.rect.y + call.rect.height

\* C22: in both rectangle implementations contains(px, py) holds iff
\* x <= px < x + width and y <= py < y + height: a point on the right or the
\* bottom edge is outside.
C22_HalfOpenBoth ==
    (ret.status = "ok" /\ call.op \in {"contains_types_hpp", "contains_rect_h"})
        => (ret.result <=> HalfOpen)

\* the same, of types.hpp alone
C22_HalfOpen_TypesHpp ==
    (ret.status = "ok" /\ call.op = "contains_types_hpp") => (ret.result <=> HalfOpen)

\* rect.h takes the points of the right and bottom edges as inside
C22_Inclusive_RectH ==
    (ret.status = "ok" /\ call.op = "contains_rect_h") =>
        (ret.result <=>
            /\ call.rect.x <= call.pt.x /\ call.pt.x <= call.rect.x + call.rect.width
            /\ call.rect.y <= call.pt.y /\ call.pt.y <= call.rect.y + call.rect.height)

\* the rectangle a record gets from the (cx, cy, w, h) of column i: the corner
\* form for ObjectDetector, the corner form cut at 0 and 1 for the two tflite
\* operations
DerivedRect(i) ==
    LET b == TrueBox(i)
        x0 == Max(0, b.x)
        y0 == Max(0, b.y)
        x1 == Min(One, b.x + b.width)
        y1 == Min(One, b.y + b.height)
    IN  IF call.op = "ObjectDetector" THEN b ELSE MkRect(x0, y0, x1 - x0, y1 - y0)

\* C23: every record returned by postprocess is that of one input column
\* that passed the confidence threshold: its confidence is the column's best
\* class score, its class_index a class of that score, its rect the one
\* derived from the column's (cx, cy, w, h); no two records are of the same
\* column.
C23_OneColumnPerRecord ==
    Returned =>
        /\ \A k \in Detections :
               LET i == ret.objects[k].col
               IN  /\ i \in Cols
                   /\ BestScore(i) > call.confidence_threshold
                   /\ ret.objects[k].confidence = BestScore(i)
                   /\ ret.objects[k].class_index \in 0..(call.num_classes - 1)
                   /\ ScoreAt(ret.objects[k].class_index, i) = BestScore(i)
                   /\ EmittedRect(k) = DerivedRect(i)
        /\ \A j, k \in Detections : j # k => ret.objects[j].col # ret.objects[k].col

\* two records returned in the reverse of their columns' order, of columns
\* that differ in score, class and box
C23_Witness ==
    /\ Returned
    /\ Len(ret.objects) = 2
    /\ ret.objects[1].col > ret.objects[2].col
    /\ ret.objects[1].confidence > ret.objects[2].confidence
    /\ ret.objects[1].class_index # ret.objects[2].class_index
    /\ EmittedRect(1) # EmittedRect(2)

\* a call of qsort_descent_inplace on a non-empty vector
SortCalled == call # NoCall /\ call.op = "qsort_descent_inplace" /\ ret.proposals # <<>>

\* C24: qsort_descent_inplace on a non-empty vector of finite confidences,
\* equal values and duplicates of the pivot included, terminates, reads and
\* swaps no element at a position outside the [left, right] of the call at
\* work, and leaves the vector a permutation of its input in non-increasing
\* order of confidence.
C24_QsortCorrect ==
    SortCalled =>
        /\ ret.status = "sorted"
        /\ ~ret.loops
        /\ ~ret.oob
        /\ ~ret.outside
        /\ Len(ret.sorted) = Len(ret.proposals)
        /\ \A i \in 1..Len(ret.proposals) :
               \E k \in 1..Len(ret.sorted) : ret.sorted[k] = ret.proposals[i]
        /\ \A k \in 1..(Len(ret.sorted) - 1) :
               ret.sorted[k].confidence >= ret.sorted[k + 1].confidence

\* a sorted vector of MaxLen proposals, all of the pivot's confidence but one,
\* which the call moved
C24_Witness ==
    /\ SortCalled
    /\ Len(ret.proposals) = MaxLen
    /\ ret.sorted # ret.proposals
    /\ Cardinality({i \in 1..MaxLen :
           ret.proposals[i].confidence = ret.proposals[((MaxLen - 1) \div 2) + 1].confidence})
         = MaxLen - 1

\* a sorted vector of MaxLen proposals of one confidence
C24_WitnessAllEqual ==
    /\ SortCalled
    /\ Len(ret.proposals) = MaxLen
    /\ \A i \in 1..MaxLen : ret.proposals[i].confidence = ret.proposals[1].confidence

=============================================================================
